---- MODULE Spec2Model ----
(***************************************************************************)
(* Model of scripts/yt_download.py: the driver main(), the segment         *)
(* selection and per-clip encoding loop of cut_segments(), and             *)
(* cut_with_ffmpeg() with its has_vaapi() probe.                           *)
(*                                                                         *)
(* Time is counted in ticks of 1/Res second, so that probed durations      *)
(* that are not whole seconds are part of the model.  The external         *)
(* programs (ffprobe, ffmpeg, the VAAPI probe) are nondeterministic        *)
(* choices over the results their call sites can observe.                  *)
(***************************************************************************)
EXTENDS Integers, Sequences, FiniteSets, TLC

VARIABLES
    runs,           \* the processes (invocations of main) of this behaviour
    dirExists,      \* does videos_dir/category/duration exist
    files,          \* its contents: file name -> [by, complete]
    pc,             \* per run: position in main / cut_segments
    duration,       \* per run: args.duration (seconds)
    num_clips,      \* per run: args.clips
    total_duration, \* per run: get_duration(video_path), in ticks
    existing,       \* per run: the .mp4 names listed at line 156
    start_index,    \* per run: line 157
    chosen_starts,  \* per run: line 171, in ticks
    i,              \* per run: loop index of line 177
    output_files,   \* per run: line 176/181
    attempts,       \* per run: the ffmpeg invocations made, in order
    err,            \* per run: the exception that ended the run, or "none"
    result,         \* per run: the "Done!" message of main, once printed
    created         \* per run: did its os.makedirs create the directory

vars == <<runs, dirExists, files, pc, duration, num_clips, total_duration,
          existing, start_index, chosen_starts, i, output_files, attempts,
          err, result, created>>

----------------------------------------------------------------------------
(* Bounds of the model *)

Res == 2            \* ticks per second
MinTotal == 48      \* shortest probed duration, seconds
MaxTotal == 81      \* longest probed duration, seconds
MaxClips == 5       \* largest --clips value
LongTotal == 100    \* one longer probed duration, seconds

(* Program constants *)

TrimSecs == 10      \* trim_start = 10.0 and total_duration - 10.0
StepSecs == 1       \* t += 1.0
PadWidth == 3       \* :03d

Choices == {30, 60}                 \* argparse choices of --duration
InDurations == {30, 45, 60}         \* --duration values tried
InClips == (0 - 1) .. MaxClips      \* --clips values tried
InTotals == ((MinTotal * Res) .. (MaxTotal * Res)) \cup {LongTotal * Res}

Accelerated == "h264_vaapi"         \* the -c:v of the ffmpeg command

----------------------------------------------------------------------------
(* File names *)

DigitChar(d) == <<"0", "1", "2", "3", "4", "5", "6", "7", "8", "9">>[d + 1]

RECURSIVE DecDigits(_)
DecDigits(n) ==
    IF n < 10 THEN <<DigitChar(n)>>
    ELSE DecDigits(n \div 10) \o <<DigitChar(n % 10)>>

RECURSIVE ZeroPad(_, _)
ZeroPad(s, w) == IF Len(s) >= w THEN s ELSE ZeroPad(<<"0">> \o s, w)

\* f"{n:03d}"
Fmt03d(n) == ZeroPad(DecDigits(n), PadWidth)

\* f"bg_{n:03d}.mp4"
BgName(n) == [stem |-> <<"bg_">> \o Fmt03d(n), ext |-> ".mp4"]

\* f.endswith(".mp4")
EndsWithMp4(f) == f.ext = ".mp4"

OtherMp4 == [stem |-> <<"intro">>, ext |-> ".mp4"]
NotesTxt == [stem |-> <<"notes">>, ext |-> ".txt"]

Pre == [by |-> 0, complete |-> TRUE]     \* a file that was there before

DirOf(names) == [f \in names |-> Pre]

\* the directory states a behaviour may start from: <<exists, contents>>
InitDirs ==
    { <<FALSE, DirOf({})>>,
      <<TRUE, DirOf({})>>,
      <<TRUE, DirOf({BgName(1), BgName(2)})>>,
      <<TRUE, DirOf({BgName(2), BgName(3)})>>,
      <<TRUE, DirOf({BgName(1), OtherMp4, NotesTxt})>> }

----------------------------------------------------------------------------
(* cut_segments: selection *)

Max(a, b) == IF a >= b THEN a ELSE b
Min(a, b) == IF a <= b THEN a ELSE b

TrimStart == TrimSecs * Res

\* line 144
TrimEnd(total, d) == Max(total - TrimSecs * Res, TrimStart + d * Res)

\* line 146
UsableDuration(total, d) == TrimEnd(total, d) - TrimStart

\* variant: the quotient rounded up instead of truncated
MaxPossibleRoundedUp(total, d) ==
    (UsableDuration(total, d) + d * Res - 1) \div (d * Res)

\* line 159: int(usable_duration / duration)
MaxPossible(total, d) == UsableDuration(total, d) \div (d * Res)

\* lines 162-166: the while loop from t
RECURSIVE StartsFrom(_, _, _)
StartsFrom(t, d, trimEnd) ==
    IF t + d * Res <= trimEnd
    THEN <<t>> \o StartsFrom(t + StepSecs * Res, d, trimEnd)
    ELSE <<>>

AllPossibleStarts(total, d) == StartsFrom(TrimStart, d, TrimEnd(total, d))

\* lines 160, 168-169
ActualClips(total, d, n) ==
    LET a == Min(n, MaxPossible(total, d))
        len == Len(AllPossibleStarts(total, d))
    IN  IF len < a THEN len ELSE a

Range(s) == {s[j] : j \in DOMAIN s}

\* the k-element subsets of S (S a set of integers)
RECURSIVE KSubsets(_, _)
KSubsets(S, k) ==
    IF k = 0 THEN {{}}
    ELSE UNION { { T \cup {x} : T \in KSubsets({y \in S : y > x}, k - 1) } : x \in S }

\* random.sample(population, k): the possible selections, as sets
Samples(population, k) == KSubsets(Range(population), k)

SetMin(S) == CHOOSE x \in S : \A y \in S : x <= y

SetMax(S) == CHOOSE x \in S : \A y \in S : x >= y

\* variant: the selection left in an order that is not ascending
RECURSIVE Unsorted(_)
Unsorted(S) ==
    IF S = {} THEN <<>>
    ELSE <<SetMax(S)>> \o Unsorted(S \ {SetMax(S)})

\* sorted(...)
RECURSIVE Sorted(_)
Sorted(S) ==
    IF S = {} THEN <<>>
    ELSE <<SetMin(S)>> \o Sorted(S \ {SetMin(S)})

\* variant: the index started at the count itself
StartIndexNoPlusOne(ex) == Cardinality(ex)

\* line 157
StartIndex(ex) == Cardinality(ex) + 1

----------------------------------------------------------------------------
(* cut_with_ffmpeg *)

\* has_vaapi(): what the probe can answer
HasVaapi == BOOLEAN

\* variant: the probe's answer ignored
InvokedAlways(hw) == TRUE

\* lines 53-57: ffmpeg is run only past the probe
Invoked(hw) == hw

\* variant: the command without "-y" refuses an existing output
FfmpegOutcomesNoOverwrite(targetExists) ==
    IF targetExists THEN {"fail_clean"} ELSE {"ok", "fail_clean", "fail_partial"}

\* what subprocess.run(cmd, ...) can do, cmd carrying "-y": finish the
\* output, fail before opening it, or fail having opened it
FfmpegOutcomes(targetExists) == {"ok", "fail_clean", "fail_partial"}

\* variant: a failed encode removes the clips the run made before
FilesAfterRollback(fs, path, r, o) ==
    IF o = "ok"
    THEN [f \in DOMAIN fs \cup {path} |->
            IF f = path THEN [by |-> r, complete |-> TRUE] ELSE fs[f]]
    ELSE [f \in {g \in DOMAIN fs : fs[g].by # r} |-> fs[f]]

\* the directory after ffmpeg ran on path for run r with outcome o
FilesAfter(fs, path, r, o) ==
    IF o = "fail_clean" THEN fs
    ELSE [f \in DOMAIN fs \cup {path} |->
            IF f = path THEN [by |-> r, complete |-> (o = "ok")] ELSE fs[f]]

\* variant: subprocess.run without check=True
RaisesUnchecked(hw, o) == ~hw

\* does cut_with_ffmpeg raise: line 54, and check=True of line 71
Raises(hw, o) == ~hw \/ o # "ok"

\* the exception it raises
Raised(hw) == IF ~hw THEN "RuntimeError: no VAAPI" ELSE "CalledProcessError"

----------------------------------------------------------------------------
NoResult == [done |-> FALSE, files |-> <<>>]

InitWith(R, dirs) ==
    /\ runs = R
    /\ \E d \in dirs : dirExists = d[1] /\ files = d[2]
    /\ pc = [r \in R |-> "main"]
    /\ duration = [r \in R |-> 0]
    /\ num_clips = [r \in R |-> 0]
    /\ total_duration = [r \in R |-> 0]
    /\ existing = [r \in R |-> {}]
    /\ start_index = [r \in R |-> 0]
    /\ chosen_starts = [r \in R |-> <<>>]
    /\ i = [r \in R |-> 0]
    /\ output_files = [r \in R |-> <<>>]
    /\ attempts = [r \in R |-> <<>>]
    /\ err = [r \in R |-> "none"]
    /\ result = [r \in R |-> NoResult]
    /\ created = [r \in R |-> FALSE]

Init == InitWith({1}, InitDirs)

\* an exception reaching main's handler, lines 236-239
Fail(r, e) ==
    /\ pc' = [pc EXCEPT ![r] = "failed"]
    /\ err' = [err EXCEPT ![r] = e]

\* main, lines 187-219: parse the arguments, download, probe
MainWith(r, durs, clips, totals) ==
    /\ pc[r] = "main"
    /\ \E d \in durs, n \in clips, t \in totals :
         IF d \notin Choices
         THEN /\ Fail(r, "argparse")
              /\ UNCHANGED <<duration, num_clips, total_duration>>
         ELSE /\ duration' = [duration EXCEPT ![r] = d]
              /\ num_clips' = [num_clips EXCEPT ![r] = n]
              /\ total_duration' = [total_duration EXCEPT ![r] = t]
              /\ pc' = [pc EXCEPT ![r] = "cut"]
              /\ UNCHANGED err
    /\ UNCHANGED <<runs, dirExists, files, existing, start_index, chosen_starts,
                   i, output_files, attempts, result, created>>

Main(r) == MainWith(r, InDurations, InClips, InTotals)

\* cut_segments, lines 141-171
CutSegmentsSelect(r) ==
    /\ pc[r] = "cut"
    /\ LET d == duration[r]
           total == total_duration[r]
       IN  IF UsableDuration(total, d) < d * Res
           THEN /\ Fail(r, "ValueError: too short")
                /\ UNCHANGED <<dirExists, existing, start_index, chosen_starts, created>>
           ELSE LET ex == {f \in DOMAIN files : EndsWithMp4(f)}
                    pop == AllPossibleStarts(total, d)
                    k == ActualClips(total, d, num_clips[r])
                IN  /\ dirExists' = TRUE
                    /\ created' = [created EXCEPT ![r] = ~dirExists]
                    /\ existing' = [existing EXCEPT ![r] = ex]
                    /\ start_index' = [start_index EXCEPT ![r] = StartIndex(ex)]
                    /\ IF k < 0 \/ k > Len(pop)
                       THEN /\ Fail(r, "ValueError: sample")
                            /\ UNCHANGED chosen_starts
                       ELSE /\ \E S \in Samples(pop, k) :
                                 chosen_starts' = [chosen_starts EXCEPT ![r] = Sorted(S)]
                            /\ pc' = [pc EXCEPT ![r] = "encode"]
                            /\ UNCHANGED err
    /\ UNCHANGED <<runs, files, duration, num_clips, total_duration, i,
                   output_files, attempts, result>>

\* the path of the clip the loop is at, lines 178-179
FilePath(r) == BgName(start_index[r] + i[r])

\* one iteration of the loop of lines 177-181, with cut_with_ffmpeg
EncodeClip(r) ==
    /\ pc[r] = "encode"
    /\ i[r] < Len(chosen_starts[r])
    /\ \E hw \in HasVaapi, o \in FfmpegOutcomes(FilePath(r) \in DOMAIN files) :
         /\ IF Invoked(hw)
            THEN /\ attempts' = [attempts EXCEPT ![r] = Append(@,
                        [clip |-> i[r], start |-> chosen_starts[r][i[r] + 1],
                         path |-> FilePath(r), encoder |-> Accelerated,
                         hw |-> hw, ok |-> (o = "ok")])]
                 /\ files' = FilesAfter(files, FilePath(r), r, o)
            ELSE UNCHANGED <<attempts, files>>
         /\ IF Raises(hw, o)
            THEN /\ Fail(r, Raised(hw))
                 /\ UNCHANGED <<i, output_files>>
            ELSE /\ output_files' = [output_files EXCEPT ![r] = Append(@, FilePath(r))]
                 /\ i' = [i EXCEPT ![r] = @ + 1]
                 /\ UNCHANGED <<pc, err>>
    /\ UNCHANGED <<runs, dirExists, duration, num_clips, total_duration,
                   existing, start_index, chosen_starts, result, created>>

\* line 183 and main, lines 229-234
Done(r) ==
    /\ pc[r] = "encode"
    /\ i[r] = Len(chosen_starts[r])
    /\ pc' = [pc EXCEPT ![r] = "done"]
    /\ result' = [result EXCEPT ![r] = [done |-> TRUE, files |-> output_files[r]]]
    /\ UNCHANGED <<runs, dirExists, files, duration, num_clips, total_duration,
                   existing, start_index, chosen_starts, i, output_files,
                   attempts, err, created>>

Next ==
    \E r \in runs :
        \/ Main(r)
        \/ CutSegmentsSelect(r)
        \/ EncodeClip(r)
        \/ Done(r)

Spec == Init /\ [][Next]_vars

(* Two runs on the same category/duration directory *)

ConcDurations == {30}
ConcClips == {1, 2}
ConcTotals == {50 * Res, 50 * Res + 1, 51 * Res}
ConcDirs == { <<FALSE, DirOf({})>>, <<TRUE, DirOf({BgName(1)})>> }

InitConc == InitWith({1, 2}, ConcDirs)

MainConc(r) == MainWith(r, ConcDurations, ConcClips, ConcTotals)

NextConc ==
    \E r \in runs :
        \/ MainConc(r)
        \/ CutSegmentsSelect(r)
        \/ EncodeClip(r)
        \/ Done(r)

SpecConc == InitConc /\ [][NextConc]_vars

----------------------------------------------------------------------------
(* Properties *)

\* cut_segments was entered by run r and has left its selection part
PastSelect(r) == pc[r] \notin {"main", "cut"} /\ err[r] # "argparse"

\* the selection part of cut_segments returned a list for run r
Selected(r) ==
    /\ PastSelect(r)
    /\ err[r] \notin {"ValueError: too short", "ValueError: sample"}

Software == "software"      \* the CPU encoder the specification speaks of

C1_Usable(total) == total - 2 * TrimSecs * Res

C1_Candidates(total, d) ==
    { t \in TrimStart .. (total - TrimSecs * Res - d * Res) :
        (t - TrimStart) % (StepSecs * Res) = 0 }

C1_Count(total, d, n) ==
    Min(n, Min(C1_Usable(total) \div (d * Res), Cardinality(C1_Candidates(total, d))))

\* C1: for totalDuration >= 20 + clipDuration and requestedCount >= 1 the
\* selection succeeds with exactly min(requestedCount, floor(usable /
\* clipDuration), |candidates|) starts, each within
\* [10, totalDuration - 10 - clipDuration].
C1_SampleCount ==
    \A r \in runs :
        ( /\ PastSelect(r)
          /\ total_duration[r] >= (2 * TrimSecs + duration[r]) * Res
          /\ num_clips[r] >= 1 )
        => /\ Selected(r)
           /\ Len(chosen_starts[r])
                = C1_Count(total_duration[r], duration[r], num_clips[r])
           /\ \A j \in DOMAIN chosen_starts[r] :
                /\ chosen_starts[r][j] >= TrimSecs * Res
                /\ chosen_starts[r][j]
                     <= total_duration[r] - TrimSecs * Res - duration[r] * Res

\* totalDuration = 100, clipDuration = 30, requestedCount = 5 gave 2 clips
C1_Witness ==
    \E r \in runs :
        /\ Selected(r)
        /\ total_duration[r] = LongTotal * Res
        /\ duration[r] = 30
        /\ num_clips[r] = MaxClips
        /\ Len(chosen_starts[r]) = 2

\* C2: for totalDuration < 20 + clipDuration the selection fails with the
\* too-short error, having selected no clip, made no encode call and
\* created neither the output directory nor a file.
C2_ShortFails ==
    \A r \in runs :
        ( /\ PastSelect(r)
          /\ total_duration[r] < (2 * TrimSecs + duration[r]) * Res )
        => /\ pc[r] = "failed"
           /\ err[r] = "ValueError: too short"
           /\ chosen_starts[r] = <<>>
           /\ attempts[r] = <<>>
           /\ ~created[r]
           /\ \A f \in DOMAIN files : files[f].by # r

\* C3, as stated: a run does not end on a failed accelerated attempt; the
\* same clip is attempted next with the software encoder.
C3_SoftwareRetry ==
    \A r \in runs : \A j \in DOMAIN attempts[r] :
        ( /\ attempts[r][j].encoder = Accelerated
          /\ ~attempts[r][j].ok
          /\ pc[r] \in {"failed", "done"} )
        => /\ j < Len(attempts[r])
           /\ attempts[r][j + 1].clip = attempts[r][j].clip
           /\ attempts[r][j + 1].encoder = Software

\* C3, amended: every attempt of a run uses the accelerated encoder, each
\* clip is attempted at most once and in order, and a failed attempt is the
\* run's last: the run has failed with that error and returned no list.
C3_AbortNoRetry ==
    \A r \in runs : \A j \in DOMAIN attempts[r] :
        /\ attempts[r][j].encoder = Accelerated
        /\ attempts[r][j].clip = j - 1
        /\ ~attempts[r][j].ok
             => /\ j = Len(attempts[r])
                /\ pc[r] = "failed"
                /\ err[r] = "CalledProcessError"
                /\ ~result[r].done

\* the second clip of a run failed after the first succeeded
C3_Witness ==
    \E r \in runs :
        /\ Len(attempts[r]) = 2
        /\ attempts[r][1].ok
        /\ ~attempts[r][2].ok
        /\ pc[r] = "failed"

\* the run ended on a failed ffmpeg call
EncodeFailed(r) == pc[r] = "failed" /\ err[r] = "CalledProcessError"

\* the complete clips of run r in the directory
ClipsOf(r) == {f \in DOMAIN files : files[f].by = r /\ files[f].complete}

C4_Consequences(r) ==
    /\ Len(attempts[r]) = i[r] + 1
    /\ \A j \in 1 .. i[r] : attempts[r][j].ok
    /\ ~attempts[r][i[r] + 1].ok
    /\ ~result[r].done
    /\ Len(output_files[r]) = i[r]
    /\ ClipsOf(r) = Range(output_files[r])
    /\ Cardinality(ClipsOf(r)) = i[r]

C5_TrimEnd(total, d) ==
    IF total - TrimSecs * Res >= (TrimSecs + d) * Res
    THEN total - TrimSecs * Res
    ELSE (TrimSecs + d) * Res

\* t is one of 10, 11, ..., trimEnd - clipDuration
C5_OnGrid(t, total, d) ==
    /\ t >= TrimSecs * Res
    /\ t <= C5_TrimEnd(total, d) - d * Res
    /\ (t - TrimSecs * Res) % (StepSecs * Res) = 0

\* C5: the selected starts are members of the 1-second grid
\* {10, 11, ..., trimEnd - clipDuration} and strictly ascending (so
\* pairwise distinct).
C5_DistinctAscending ==
    \A r \in runs :
        Selected(r)
        => \A j, k \in DOMAIN chosen_starts[r] :
            /\ C5_OnGrid(chosen_starts[r][j], total_duration[r], duration[r])
            /\ j < k => chosen_starts[r][j] < chosen_starts[r][k]

\* two starts were selected
C5_Witness ==
    \E r \in runs : Selected(r) /\ Len(chosen_starts[r]) = 2

C7_ProbeFailureNotFatal ==
    \A r \in runs : err[r] # "RuntimeError: no VAAPI"

\* C7, amended: every encode attempt follows a successful hardware probe
\* and uses the accelerated encoder; when the probe fails the clip is not
\* attempted with any encoder and the run fails, returning no list.
C7_ProbeGatesEveryClip ==
    \A r \in runs :
        /\ \A j \in DOMAIN attempts[r] :
              attempts[r][j].hw /\ attempts[r][j].encoder = Accelerated
        /\ err[r] = "RuntimeError: no VAAPI"
             => /\ pc[r] = "failed"
                /\ i[r] < Len(chosen_starts[r])
                /\ Len(attempts[r]) = i[r]
                /\ ~result[r].done

\* the probe failed before the first clip
C7_Witness ==
    \E r \in runs :
        /\ err[r] = "RuntimeError: no VAAPI"
        /\ attempts[r] = <<>>
        /\ pc[r] = "failed"

\* C8: with requestedCount < 1 or clipDuration outside {30, 60} the call
\* fails and produces nothing: no list, no encode attempt, no directory,
\* no file.
C8_InvalidFails ==
    \A r \in runs :
        ( /\ pc[r] \notin {"main", "cut"}
          /\ (num_clips[r] < 1 \/ duration[r] \notin Choices) )
        => /\ pc[r] = "failed"
           /\ ~result[r].done
           /\ attempts[r] = <<>>
           /\ ~created[r]
           /\ \A f \in DOMAIN files : files[f].by # r

\* C9: runs are not synchronized: runs that listed the same files hold the
\* same starting ordinal, and a run at a clip can always write that clip's
\* path, whatever the other run has put there.
C9_Unsynchronized ==
    /\ \A r, q \in runs :
          (Selected(r) /\ Selected(q) /\ existing[r] = existing[q])
          => start_index[r] = start_index[q]
    /\ \A r \in runs :
          (pc[r] = "encode" /\ i[r] < Len(chosen_starts[r]))
          => ENABLED ( /\ EncodeClip(r)
                       /\ FilePath(r) \in DOMAIN files'
                       /\ files'[FilePath(r)] = [by |-> r, complete |-> TRUE] )

\* both runs listed the same files and one overwrote a clip of the other
C9_Witness ==
    \E r, q \in runs : \E f \in DOMAIN files :
        /\ r # q
        /\ existing[r] = existing[q]
        /\ start_index[r] = start_index[q]
        /\ f \in Range(output_files[r])
        /\ f \in Range(output_files[q])
        /\ files[f].by = q

\* C10: a run never writes to the path of a file that was in the directory
\* when it listed it.
C10_NoOverwriteExisting ==
    \A r \in runs : \A j \in DOMAIN attempts[r] :
        attempts[r][j].path \notin existing[r]

====
